---- MODULE Spec2Model ----
(***************************************************************************)
(* Reactive decision pipeline of EAIOS.                                    *)
(*                                                                         *)
(*   S8DecisionAgent   backend/app/scenarios/s8_decision.py                *)
(*   EventBus          EAIOS-main/backend/app/core/event_bus.py            *)
(*                                                                         *)
(* All coroutines run on one asyncio event loop.  A coroutine keeps the    *)
(* loop from one suspension point to the next, so every action below is    *)
(* the block of statements between two suspension points.  The variable    *)
(* running names the handler that holds the loop inside such a block when  *)
(* the block is shown in two steps (the guard's check and its set).        *)
(*                                                                         *)
(* Report versions: the string "v1.0" is the number 1, "v2.0" is 2.        *)
(***************************************************************************)
EXTENDS Integers, Sequences, FiniteSets, TLC

\* ---------------------------------------------------------------- bounds
MaxEvents == 2
MaxGens == 1
MaxFacts == 1
MaxActions == 1
MaxEmits == 1
MaxSubs == 2
MaxClock == 1
MaxBurst == 150
MaxOverlap == 2
MaxNest == 2
MaxRegs == 3
MaxItems == 1
MaxDecisions == 2
MaxRecall == 3
MaxNodes == 3
MaxConstructions == 2

Events == 1..MaxEvents
Gens == 1..MaxGens
Facts == 1..MaxFacts
ActionLists == 1..MaxActions
EmitCalls == 1..MaxEmits
Handlers == {"plain", "coroutine"}
Topics == {"memory_updated", "node_status"}
Callbacks == {"h1", "h2", "h3"}

\* ------------------------------------------------------- program constants
V1 == 1
V2 == 2
OldVersionLiteral == 1
NewVersionLiteral == 2
max_history == 100
SearchLimit == 5
BackfillCount == 2
ConflictSearchLimit == 3

VARIABLES
    is_processing_update,   \* S8DecisionAgent._is_processing_update
    current_report,         \* the dict self.current_report refers to; id 0 is None
    report_version,         \* S8DecisionAgent.report_version
    produced,               \* the version of every report built so far, by report id
    running,                \* the handler holding the event loop, 0 when it is free
    pc,                     \* on_memory_updated invocation of each ingestion event
    ids,                    \* event_data["memory_ids"] of each ingestion event
    startRep,               \* id of the current report when the invocation passed its checks
    newRep,                 \* id of new_report, what generate_report returned to the revision
    cmpOld,                 \* id of old_report handed to _generate_comparison
    calls,                  \* completion-service calls made by the running invocation
    emitted,                \* event names emitted by the running invocation
    upd,                    \* the report_updated payload published by the running invocation
    last,                   \* how the invocation that ended last ended
    gpc,                    \* user-initiated generate_report requests
    subscribers,            \* EventBus.subscribers
    event_history,          \* EventBus.event_history
    emits,                  \* the emit calls: idle, gathering its tasks, or ended
    lastEmit,               \* what the emit call that ended last left behind
    nEvents,                \* Event objects built so far
    clock,                  \* datetime.now(), in seconds
    gathering,              \* emit calls of a burst that are awaiting their handlers
    emitCalls,              \* emit calls made by callers and by handlers, in call order
    lastOp,                 \* the last subscribe or unsubscribe call and the lists before it
    store,                  \* ids of the facts in the memory store
    pmn,                    \* a process_meeting_notes call: position, how the extraction's
                            \* completion came back, what was extracted,
                            \* memory_ids, the decision and the fact in hand, the conflicts
                            \* found, the events emitted, how it ended, the items whose add
                            \* returned an id, the calls and emits made in order, and the
                            \* memory_ids of the memory_updated event
    gr,                     \* a generate_report call: position, stages run, the facts the
                            \* running stage recalled, each completion outcome, each output,
                            \* the node_status events each stage emitted
    bf,                     \* one run of the evidence backfill loop: the recalled facts, the
                            \* parsed entries, and the entries the stage returns
    orch,                   \* a ScenarioOrchestrator.run call: position, self.graph, the
                            \* AgentState the graph works on, and what the caller gets
    ctor,                   \* S8DecisionAgent(...) calls: whether cls._instance is set, the
                            \* instance's _initialized, objects allocated, calls made
    judgment                \* how the completion of the last relevance judgment came back

agentVars == <<is_processing_update, current_report, report_version, produced, running,
               pc, ids, startRep, newRep, cmpOld, calls, emitted, upd, last, gpc>>
busVars == <<subscribers, event_history, emits, lastEmit, nEvents, clock>>
burstVars == <<gathering>>
nestVars == <<emitCalls>>
subsVars == <<lastOp>>
genVars == <<store, gr>>
meetVars == <<pmn>>
fillVars == <<bf>>
runVars == <<orch>>
ctorVars == <<ctor>>
judgeVars == <<judgment>>
moreVars == <<fillVars, runVars, ctorVars, judgeVars>>
extVars == <<burstVars, nestVars, subsVars, genVars, meetVars, moreVars>>
nonBusVars == <<agentVars, extVars>>
nonAgentVars == <<busVars, extVars>>
vars == <<agentVars, busVars, extVars>>

\* ---------------------------------------------------------------- reports
NoReport == [id |-> 0, version |-> 0, status |-> "none", tasks |-> 0, sync_log |-> "none"]

\* generate_report lines 67-74: the report dict, a new object
NewReport(n, v) ==
    [id |-> n, version |-> v, status |-> "pending_confirmation", tasks |-> 0,
     sync_log |-> "none"]

NoUpdate == [present |-> FALSE, old_version |-> 0, new_version |-> 0, reasons |-> FALSE]

\* variant: the confirmed check is missing
NeverConfirmed(r) == FALSE

\* self.current_report.get("status") == "confirmed"
IsConfirmed(r) == r.status = "confirmed"

\* variant: the version is left alone until the revision has been published
VersionKept(v) == v

\* self.report_version = "v2.0"
BumpedVersion(v) == V2

\* ------------------------------------------------------ re-entrancy guard
\* variant: the guard check is missing
GuardNever == FALSE

\* if S8DecisionAgent._is_processing_update: return
GuardBlocks == is_processing_update

\* variant: the early return is inside the try, so the finally clears the flag
FlagClearedOnDrop == FALSE

\* the flag after the early return of a dropped event: the return is before the try
FlagAfterDrop == is_processing_update

\* variant: the flag is reset only where the revision branch ends
FlagClearedAfterRevision(how) == how # "revised"

\* variant: the flag is reset at the end of the body, not in a finally
FlagAfterExitNoFinally(how) == how = "raised"

\* finally: S8DecisionAgent._is_processing_update = False, whatever the exit
FlagAfterExit(how) == FALSE

\* variant: an await between the check and the set
LoopReleased(e) == 0

\* no await between the check and the set: the handler keeps the loop
LoopAfterCheck(e) == e

InFlight == {"judging", "summary", "risk", "rec", "comparing", "publishing"}

\* the coroutine returns or raises after n completion calls and the emits em: the
\* finally clause runs and the locals are gone
Finish(e, how, n, em) ==
    /\ pc' = [pc EXCEPT ![e] = "done"]
    /\ last' = [how |-> how, calls |-> n, emitted |-> em]
    /\ is_processing_update' = FlagAfterExit(how)
    /\ ids' = [ids EXCEPT ![e] = {}]
    /\ startRep' = [startRep EXCEPT ![e] = 0]
    /\ newRep' = [newRep EXCEPT ![e] = 0]
    /\ cmpOld' = [cmpOld EXCEPT ![e] = 0]
    /\ calls' = [calls EXCEPT ![e] = 0]
    /\ emitted' = [emitted EXCEPT ![e] = {}]
    /\ upd' = [upd EXCEPT ![e] = NoUpdate]

Exit(e, how) == Finish(e, how, calls[e], emitted[e])

\* ------------------------------------------------- outputs of the stages
Stages == {"summary", "risk", "rec"}
StageOrder == <<"summary", "risk", "rec">>
Outcomes == {"valid", "error", "empty", "malformed"}

\* ids a completion may cite: the ids of the facts, and 0, the id of no fact
Ids == 0..MaxFacts

NoOutput == [set |-> FALSE, text |-> "none", items |-> 0, evidence_ids |-> {}]

\* the dict a stage returns when its completion failed: the summary placeholder with
\* key_metrics [] and evidence_ids [], {"risks": []}, {"actions": []}
Fallback(s) ==
    [set |-> TRUE, text |-> IF s = "summary" THEN "placeholder" ELSE "none",
     items |-> 0, evidence_ids |-> {}]

\* variant: json.loads is outside the try, a malformed content raises
ParseUncaught(o) ==
    IF o = "valid" THEN "result" ELSE IF o = "malformed" THEN "raise" ELSE "fallback"

\* the error check, the empty check, and json.loads inside try/except Exception
ParseOutcome(o) == IF o = "valid" THEN "result" ELSE "fallback"

Range(f) == {f[k] : k \in DOMAIN f}

\* search_memories(limit=5): a list of distinct facts of the store, [] on failure
Recalls(st) ==
    {m \in UNION {[1..n -> st] : n \in 0..SearchLimit} :
        \A i, j \in DOMAIN m : i # j => m[i] # m[j]}

\* variant: memories instead of memories[:2]
AllMemories(memories) == memories

\* memories[:2]
FirstTwo(memories) ==
    [k \in 1..(IF Len(memories) < BackfillCount THEN Len(memories) ELSE BackfillCount)
        |-> memories[k]]

\* [m.id for m in memories[:2]], as a set
FirstIds(memories) == Range(FirstTwo(memories))

\* an entry of a parsed completion, by its evidence_ids: the key may be missing
Entry(has, cited) == [has |-> has, evidence_ids |-> cited]

\* not entry.get("evidence_ids")
NoEvidence(entry) == ~entry.has \/ entry.evidence_ids = <<>>

\* for entry in result.get(key, []): if not entry.get("evidence_ids"):
\*     entry["evidence_ids"] = [m.id for m in memories[:2]]
BackfillEntries(entries, memories) ==
    [k \in DOMAIN entries |->
        IF NoEvidence(entries[k]) THEN Entry(TRUE, FirstTwo(memories)) ELSE entries[k]]

\* if not item.get("evidence_ids"): item["evidence_ids"] = [m.id for m in memories[:2]]
Backfill(cited, memories) == IF cited = {} THEN FirstIds(memories) ELSE cited

\* the lists of risks or actions a completion may hold, each item by the ids it cites
ItemLists == UNION {[1..n -> SUBSET Ids] : n \in 0..MaxItems}

\* what a stage returns for a parsed completion: the summary gets the ids of the
\* recalled facts, a risk or an action keeps the ids it cites or gets the first two
Result(s, m, items, memories) ==
    IF s = "summary"
    THEN [set |-> TRUE, text |-> "generated", items |-> m,
          evidence_ids |-> Range(memories)]
    ELSE [set |-> TRUE, text |-> "none", items |-> Len(items),
          evidence_ids |-> UNION {Backfill(items[k], memories) : k \in DOMAIN items}]

\* the node_status events of a stage run: "working" on entry, and "completed" at the
\* end of the try block, which only a parsed completion reaches
StatusOnEntry == <<"working">>
StatusOnReturn(o) ==
    IF ParseOutcome(o) = "result" THEN <<"working", "completed">> ELSE <<"working">>

\* ------------------------------------------------- ScenarioOrchestrator.run
\* initial_state: the fields of AgentState the run reads or could write
InitialState == [node_outputs |-> <<>>, sources |-> <<>>, error |-> "None"]

\* what run hands to its caller: the keys of the dict and their values; "raise" is
\* an exception leaving run
NoResult == [keys |-> {}, success |-> FALSE, outputs |-> <<>>, sources |-> <<>>,
             error |-> "None"]
SuccessResult(final_state) ==
    [keys |-> {"success", "outputs", "sources"}, success |-> TRUE,
     outputs |-> final_state.node_outputs, sources |-> final_state.sources,
     error |-> "None"]
FailureResult(e) ==
    [keys |-> {"success", "error"}, success |-> FALSE, outputs |-> <<>>,
     sources |-> <<>>, error |-> e]

\* ------------------------------------------------------------------ Init
Init ==
    /\ is_processing_update = FALSE
    /\ current_report = NoReport
    /\ report_version = V1
    /\ produced = <<>>
    /\ running = 0
    /\ pc = [e \in Events |-> "idle"]
    /\ ids = [e \in Events |-> {}]
    /\ startRep = [e \in Events |-> 0]
    /\ newRep = [e \in Events |-> 0]
    /\ cmpOld = [e \in Events |-> 0]
    /\ calls = [e \in Events |-> 0]
    /\ emitted = [e \in Events |-> {}]
    /\ upd = [e \in Events |-> NoUpdate]
    /\ last = [how |-> "none", calls |-> 0, emitted |-> {}]
    /\ gpc = [g \in Gens |-> "idle"]
    /\ subscribers = [t \in Topics |-> <<>>]
    /\ event_history = <<>>
    /\ emits = [i \in EmitCalls |-> [state |-> "idle", ev |-> [n |-> 0, id |-> 0],
                                     tasks |-> <<>>]]
    /\ lastEmit = [state |-> "none", ev |-> [n |-> 0, id |-> 0], result |-> -1,
                   expected |-> 0, returned |-> 0, raised |-> 0, recorded |-> FALSE]
    /\ nEvents = 0
    /\ clock = 0
    /\ gathering = 0
    /\ emitCalls = <<>>
    /\ lastOp = [op |-> "none", topic |-> "none", callback |-> "none",
                 before |-> [t \in Topics |-> <<>>]]
    /\ store = {}
    /\ gr = [pc |-> "idle", ran |-> <<>>, recalled |-> <<>>,
             outcome |-> [s \in Stages |-> "none"],
             out |-> [s \in Stages |-> NoOutput],
             status |-> [s \in Stages |-> <<>>]]
    /\ bf = [done |-> FALSE, memories |-> <<>>, entries |-> <<>>, returned |-> <<>>]
    /\ orch = [pc |-> "idle", graph |-> FALSE, state |-> InitialState,
               raised |-> FALSE, result |-> NoResult]
    /\ ctor = [instance |-> FALSE, initialized |-> FALSE, allocated |-> 0, calls |-> 0]
    /\ judgment = "none"
    /\ pmn = [pc |-> "idle", n |-> 0, insight |-> FALSE, meta |-> FALSE,
              memory_ids |-> <<>>, d |-> 0, related |-> {}, mem |-> 0,
              conflicts |-> {}, events |-> <<>>, result |-> "none",
              judged |-> "none", skipped |-> FALSE,
              last |-> [d |-> 0, mem |-> 0, o |-> "none"],
              written |-> {}, steps |-> <<>>, update_ids |-> <<>>,
              extraction |-> "none"]

\* ------------------------------------------------------ on_memory_updated
\* EventBus.emit(MEMORY_UPDATED, {memory_ids: m}): gather starts the handler task
EmitMemoryUpdated(e, m) ==
    /\ running = 0
    /\ pc[e] = "idle"
    /\ \A d \in Events : d < e => pc[d] # "idle"
    /\ pc' = [pc EXCEPT ![e] = "pending"]
    /\ ids' = [ids EXCEPT ![e] = m]
    /\ UNCHANGED <<is_processing_update, current_report, report_version, produced,
                   running, startRep, newRep, cmpOld, calls, emitted, upd, last, gpc>>
    /\ UNCHANGED nonAgentVars

\* lines 568-571: the guard's check
OMU_Check(e) ==
    /\ running = 0
    /\ pc[e] = "pending"
    /\ IF GuardBlocks
       THEN /\ pc' = [pc EXCEPT ![e] = "done"]
            /\ last' = [how |-> "dropped", calls |-> calls[e], emitted |-> emitted[e]]
            /\ is_processing_update' = FlagAfterDrop
            /\ ids' = [ids EXCEPT ![e] = {}]
            /\ running' = 0
       ELSE /\ pc' = [pc EXCEPT ![e] = "checked"]
            /\ running' = LoopAfterCheck(e)
            /\ UNCHANGED <<last, is_processing_update, ids>>
    /\ UNCHANGED <<current_report, report_version, produced, startRep, newRep,
                   cmpOld, calls, emitted, upd, gpc>>
    /\ UNCHANGED nonAgentVars

\* lines 573-606 and 643-675: the set, the checks of the report and of the ids, and
\* _should_update_report up to its completion call
OMU_Set(e) ==
    /\ running \in {0, e}
    /\ pc[e] = "checked"
    /\ running' = 0
    /\ \/ /\ current_report.id = 0
          /\ Exit(e, "no_report")
       \/ /\ current_report.id # 0
          /\ IsConfirmed(current_report)
          /\ Exit(e, "confirmed")
       \/ /\ current_report.id # 0
          /\ ~IsConfirmed(current_report)
          /\ ids[e] = {}
          /\ Exit(e, "no_ids")
       \/ /\ current_report.id # 0
          /\ ~IsConfirmed(current_report)
          /\ ids[e] # {}
          /\ \E visible \in SUBSET Facts :
                IF ids[e] \cap visible = {}
                THEN Exit(e, "no_memories")
                ELSE \/ /\ pc' = [pc EXCEPT ![e] = "judging"]
                        /\ is_processing_update' = TRUE
                        /\ startRep' = [startRep EXCEPT ![e] = current_report.id]
                        /\ calls' = [calls EXCEPT ![e] = @ + 1]
                        /\ ids' = [ids EXCEPT ![e] = {}]
                        /\ UNCHANGED <<last, newRep, cmpOld, emitted, upd>>
                     \/ Exit(e, "raised")
    /\ UNCHANGED <<current_report, report_version, produced, gpc>>
    /\ UNCHANGED nonAgentVars

\* the ways the judgment's completion comes back: a JSON object saying true or
\* false, an error dict, an empty content, a content json.loads rejects, and a JSON
\* value without the key should_update
Judgments == {"yes", "no", "error", "empty", "malformed", "no_key"}
JudgmentFailures == {"error", "empty", "malformed"}

\* variant: a judgment that cannot be read counts as a yes
ShouldUpdateFailClosed(j) ==
    IF j \in {"yes"} \cup JudgmentFailures THEN "true"
    ELSE IF j = "no" THEN "false" ELSE "raise"

\* _should_update_report lines 675-688 read by should_update["should_update"] at
\* line 608: the except clause answers should_update False for an error dict (its
\* content is None), an empty and an unparseable content
ShouldUpdate(j) ==
    IF j = "yes" THEN "true"
    ELSE IF j \in {"no"} \cup JudgmentFailures THEN "false" ELSE "raise"

\* lines 606-613 and 675-688: the judgment returns; on yes the version is set and
\* generate_report runs its first stage up to the completion call
OMU_Judge(e, j) ==
    /\ running = 0
    /\ pc[e] = "judging"
    /\ judgment' = j
    /\ \/ /\ ShouldUpdate(j) = "true"
          /\ report_version' = BumpedVersion(report_version)
          /\ \/ /\ pc' = [pc EXCEPT ![e] = "summary"]
                /\ calls' = [calls EXCEPT ![e] = @ + 1]
                /\ emitted' = [emitted EXCEPT ![e] = @ \cup {"node_status"}]
                /\ UNCHANGED <<last, is_processing_update, ids, startRep, newRep,
                               cmpOld, upd>>
             \/ Exit(e, "raised")
       \/ /\ ShouldUpdate(j) = "false"
          /\ Exit(e, IF j = "no" THEN "no_update" ELSE "judge_failed")
          /\ UNCHANGED report_version
       \/ /\ ShouldUpdate(j) = "raise"
          /\ Exit(e, "raised")
          /\ UNCHANGED report_version
    /\ UNCHANGED <<current_report, produced, running, gpc>>
    /\ UNCHANGED <<busVars, burstVars, nestVars, subsVars, genVars, meetVars, fillVars,
                   runVars, ctorVars>>

NextStage(s) == IF s = "summary" THEN "risk" ELSE "rec"

\* generate_report lines 58-64 inside a revision: a stage's completion call returns
\* (its result or its fallback) and the next stage runs up to its completion call
OMU_Stage(e) ==
    /\ running = 0
    /\ pc[e] \in {"summary", "risk"}
    /\ \/ /\ pc' = [pc EXCEPT ![e] = NextStage(pc[e])]
          /\ calls' = [calls EXCEPT ![e] = @ + 1]
          /\ UNCHANGED <<last, is_processing_update, ids, startRep, newRep, cmpOld,
                         emitted, upd>>
       \/ Exit(e, "raised")
    /\ UNCHANGED <<current_report, report_version, produced, running, gpc>>
    /\ UNCHANGED nonAgentVars

\* generate_report lines 66-89 and on_memory_updated lines 613-620, 690-729: the last
\* stage returns, the report is built and stored, report_generated is emitted, and
\* _generate_comparison is called with old_report = self.current_report
OMU_Regenerated(e) ==
    /\ running = 0
    /\ pc[e] = "rec"
    /\ produced' = Append(produced, report_version)
    /\ current_report' = NewReport(Len(produced) + 1, report_version)
    /\ \/ /\ pc' = [pc EXCEPT ![e] = "comparing"]
          /\ newRep' = [newRep EXCEPT ![e] = Len(produced) + 1]
          /\ cmpOld' = [cmpOld EXCEPT ![e] = current_report'.id]
          /\ emitted' = [emitted EXCEPT ![e] = @ \cup {"report_generated"}]
          /\ calls' = [calls EXCEPT ![e] = @ + 1]
          /\ UNCHANGED <<last, is_processing_update, ids, startRep, upd>>
       \/ Finish(e, "raised", calls[e], emitted[e] \cup {"report_generated"})
    /\ UNCHANGED <<report_version, running, gpc>>
    /\ UNCHANGED nonAgentVars

\* _generate_comparison lines 729-750 and on_memory_updated lines 622-633: the
\* comparison (or its fallback with revision_reasons = []) and the report_updated emit
OMU_Compare(e, c) ==
    /\ running = 0
    /\ pc[e] = "comparing"
    /\ \/ /\ c \in {"reasons", "empty", "fail"}
          /\ upd' = [upd EXCEPT ![e] = [present |-> TRUE,
                                        old_version |-> OldVersionLiteral,
                                        new_version |-> NewVersionLiteral,
                                        reasons |-> (c = "reasons")]]
          /\ emitted' = [emitted EXCEPT ![e] = @ \cup {"report_updated"}]
          /\ pc' = [pc EXCEPT ![e] = "publishing"]
          /\ UNCHANGED <<last, is_processing_update, ids, startRep, newRep, cmpOld,
                         calls>>
       \/ /\ c = "raise"
          /\ Exit(e, "raised")
    /\ UNCHANGED <<current_report, report_version, produced, running, gpc>>
    /\ UNCHANGED nonAgentVars

\* lines 633-641: the emit returns and the finally clause runs
OMU_Finish(e) ==
    /\ running = 0
    /\ pc[e] = "publishing"
    /\ Exit(e, "revised")
    /\ UNCHANGED <<current_report, report_version, produced, running, gpc>>
    /\ UNCHANGED nonAgentVars

\* one step of the on_memory_updated invocation of event e
OMU(e) ==
    \/ OMU_Check(e)
    \/ OMU_Set(e)
    \/ \E j \in Judgments : OMU_Judge(e, j)
    \/ OMU_Stage(e)
    \/ OMU_Regenerated(e)
    \/ \E c \in {"reasons", "empty", "fail", "raise"} : OMU_Compare(e, c)
    \/ OMU_Finish(e)

\* ------------------------------------------- user-initiated generate_report
handlerVars == <<is_processing_update, pc, ids, startRep, newRep, cmpOld, calls,
                 emitted, upd, last>>

\* lines 45-58: the request arrives and the first stage runs up to its completion call
GenStart(g) ==
    /\ running = 0
    /\ gpc[g] = "idle"
    /\ \A d \in Gens : d < g => gpc[d] # "idle"
    /\ \/ gpc' = [gpc EXCEPT ![g] = "summary"]
       \/ gpc' = [gpc EXCEPT ![g] = "raised"]
    /\ UNCHANGED <<current_report, report_version, produced, running>>
    /\ UNCHANGED handlerVars
    /\ UNCHANGED nonAgentVars

\* lines 58-64
GenStage(g) ==
    /\ running = 0
    /\ gpc[g] \in {"summary", "risk"}
    /\ \/ gpc' = [gpc EXCEPT ![g] = NextStage(gpc[g])]
       \/ gpc' = [gpc EXCEPT ![g] = "raised"]
    /\ UNCHANGED <<current_report, report_version, produced, running>>
    /\ UNCHANGED handlerVars
    /\ UNCHANGED nonAgentVars

\* lines 66-89
GenFinish(g) ==
    /\ running = 0
    /\ gpc[g] = "rec"
    /\ produced' = Append(produced, report_version)
    /\ current_report' = NewReport(Len(produced) + 1, report_version)
    /\ gpc' = [gpc EXCEPT ![g] = "done"]
    /\ UNCHANGED <<report_version, running>>
    /\ UNCHANGED handlerVars
    /\ UNCHANGED nonAgentVars

\* ---------------------------------------------------------- confirm_actions
\* lines 498-559: one block, the action_confirmed emit has no subscriber to wait for
ConfirmActions(a, sync) ==
    /\ running = 0
    /\ IF current_report.id # 0
       THEN current_report' = [current_report EXCEPT
                                  !.status = "confirmed",
                                  !.tasks = a,
                                  !.sync_log = IF sync THEN "synced" ELSE "not_synced"]
       ELSE UNCHANGED current_report
    /\ UNCHANGED <<report_version, produced, running, gpc>>
    /\ UNCHANGED handlerVars
    /\ UNCHANGED nonAgentVars

\* ================================================================ EventBus
Registrations == Len(subscribers["memory_updated"]) + Len(subscribers["node_status"])

\* variant: every element equal to x is removed
RemoveAll(s, x) == SelectSeq(s, LAMBDA y : y # x)

\* list.remove(x): the list without the first element equal to x
RECURSIVE RemoveFirst(_, _)
RemoveFirst(s, x) ==
    IF s = <<>> THEN <<>>
    ELSE IF Head(s) = x THEN Tail(s)
    ELSE <<Head(s)>> \o RemoveFirst(Tail(s), x)

\* variant: pop() instead of pop(0), the newest event is evicted
RecordEvictNewest(h, ev) ==
    IF Len(h) + 1 > max_history THEN h ELSE Append(h, ev)

\* self.event_history.append(event); if len > max_history: pop(0)
Record(h, ev) ==
    IF Len(h) + 1 > max_history THEN Tail(Append(h, ev)) ELSE Append(h, ev)

\* the tasks list of emit: one awaitable per registration, in registration order
\* (a coroutine for a coroutine function, asyncio.to_thread for a plain function);
\* a task is running, returned or raised
TasksFor(subs) == [k \in 1..Len(subs) |-> "running"]

\* variant: asyncio.wait(tasks, return_when=FIRST_COMPLETED)
GatherFirstCompleted(tasks) ==
    IF tasks = <<>> \/ \E k \in 1..Len(tasks) : tasks[k] # "running"
    THEN "returned" ELSE "waiting"

\* variant: gather without return_exceptions, the first exception ends it
GatherPropagates(tasks) ==
    IF \E k \in 1..Len(tasks) : tasks[k] = "raised" THEN "raised"
    ELSE IF \A k \in 1..Len(tasks) : tasks[k] # "running" THEN "returned"
    ELSE "waiting"

\* await asyncio.gather(*tasks, return_exceptions=True): it ends when every task has
\* ended, and an exception is one of its results
GatherOutcome(tasks) ==
    IF \A k \in 1..Len(tasks) : tasks[k] # "running" THEN "returned" ELSE "waiting"

Count(tasks, st) == Cardinality({k \in 1..Len(tasks) : tasks[k] = st})

EndedEmit == [state |-> "ended", ev |-> [n |-> 0, id |-> 0], tasks |-> <<>>]

\* what an emit call left behind when it ended: how it ended, what it returned, and
\* how many of its tasks had returned and raised by then, given the history hist
Ended(call, how, hist) ==
    [state |-> how,
     ev |-> call.ev,
     result |-> IF how = "returned" THEN call.ev.id ELSE -1,
     expected |-> Len(call.tasks),
     returned |-> Count(call.tasks, "returned"),
     raised |-> Count(call.tasks, "raised"),
     recorded |-> \E k \in 1..Len(hist) : hist[k] = call.ev]

\* subscribe lines 46-49
Subscribe(t, h) ==
    /\ Registrations < MaxSubs
    /\ subscribers' = [subscribers EXCEPT ![t] = Append(@, h)]
    /\ UNCHANGED <<event_history, emits, lastEmit, nEvents, clock>>
    /\ UNCHANGED nonBusVars

\* unsubscribe lines 54-55, for a registered handler
Unsubscribe(t, h) ==
    /\ \E k \in 1..Len(subscribers[t]) : subscribers[t][k] = h
    /\ subscribers' = [subscribers EXCEPT ![t] = RemoveFirst(@, h)]
    /\ UNCHANGED <<event_history, emits, lastEmit, nEvents, clock>>
    /\ UNCHANGED nonBusVars

\* a second passes
Tick ==
    /\ clock < MaxClock
    /\ clock' = clock + 1
    /\ UNCHANGED <<subscribers, event_history, emits, lastEmit, nEvents>>
    /\ UNCHANGED nonBusVars

\* emit lines 66-88: the event is built and recorded and the tasks list is built
\* from the handlers registered now; with no task emit returns at once (line 90)
EmitStart(i, t) ==
    /\ emits[i].state = "idle"
    /\ \A j \in EmitCalls : j < i => emits[j].state # "idle"
    /\ LET call == [state |-> "gathering",
                    ev |-> [n |-> nEvents + 1, id |-> clock],
                    tasks |-> TasksFor(subscribers[t])]
       IN /\ event_history' = Record(event_history, call.ev)
          /\ nEvents' = nEvents + 1
          /\ IF call.tasks = <<>>
             THEN /\ emits' = [emits EXCEPT ![i] = EndedEmit]
                  /\ lastEmit' = Ended(call, "returned", Record(event_history, call.ev))
             ELSE /\ emits' = [emits EXCEPT ![i] = call]
                  /\ UNCHANGED lastEmit
    /\ UNCHANGED <<subscribers, clock>>
    /\ UNCHANGED nonBusVars

\* a handler of emit call i returns or raises
HandlerEnd(i, k, how) ==
    /\ k \in 1..Len(emits[i].tasks)
    /\ emits[i].tasks[k] = "running"
    /\ emits' = [emits EXCEPT ![i].tasks[k] = how]
    /\ UNCHANGED <<subscribers, event_history, lastEmit, nEvents, clock>>
    /\ UNCHANGED nonBusVars

\* emit lines 88-90: gather ends and emit returns event.id
EmitEnd(i) ==
    /\ emits[i].state = "gathering"
    /\ GatherOutcome(emits[i].tasks) # "waiting"
    /\ lastEmit' = Ended(emits[i], GatherOutcome(emits[i].tasks), event_history)
    /\ emits' = [emits EXCEPT ![i] = EndedEmit]
    /\ UNCHANGED <<subscribers, event_history, nEvents, clock>>
    /\ UNCHANGED nonBusVars

NextBus ==
    \/ \E t \in Topics, h \in Handlers : Subscribe(t, h)
    \/ \E t \in Topics, h \in Handlers : Unsubscribe(t, h)
    \/ Tick
    \/ \E i \in EmitCalls, t \in Topics : EmitStart(i, t)
    \/ \E i \in EmitCalls, k \in 1..MaxSubs, how \in {"returned", "raised"} :
          HandlerEnd(i, k, how)
    \/ \E i \in EmitCalls : EmitEnd(i)

SpecBus == Init /\ [][NextBus]_vars

\* ------------------------------------------------------- a burst of emits
\* emit lines 66-88 in a burst: the event is built and recorded; with handlers
\* registered for the topic the call awaits gather while later emits run
BurstEmit(t) ==
    /\ nEvents < MaxBurst
    /\ event_history' = Record(event_history, [n |-> nEvents + 1, id |-> clock])
    /\ nEvents' = nEvents + 1
    /\ IF subscribers[t] = <<>>
       THEN UNCHANGED gathering
       ELSE /\ gathering < MaxOverlap
            /\ gathering' = gathering + 1
    /\ UNCHANGED <<subscribers, emits, lastEmit, clock>>
    /\ UNCHANGED <<agentVars, nestVars, subsVars, genVars, meetVars, moreVars>>

\* emit lines 88-90 in a burst: the handlers of one call have ended, it returns
BurstEmitEnd ==
    /\ gathering > 0
    /\ gathering' = gathering - 1
    /\ UNCHANGED busVars
    /\ UNCHANGED <<agentVars, nestVars, subsVars, genVars, meetVars, moreVars>>

NextBurst ==
    \/ \E t \in Topics, h \in Handlers : Subscribe(t, h)
    \/ \E t \in Topics, h \in Handlers : Unsubscribe(t, h)
    \/ \E t \in Topics : BurstEmit(t)
    \/ BurstEmitEnd

SpecBurst == Init /\ [][NextBurst]_vars

\* ------------------------------------------ emits made by handlers of an emit
\* what gather sees of the tasks: a handler awaiting its own emit has not ended
Awaited(tasks) ==
    [k \in 1..Len(tasks) |-> IF tasks[k] = "awaiting" THEN "running" ELSE tasks[k]]

\* the first call is made by a caller outside the bus (p = 0), every later one by
\* the running handler k of call p, which awaits it (the handlers make such calls
\* at s8_decision.py lines 626-633)
CanEmit(p, k) ==
    \/ p = 0 /\ k = 0 /\ emitCalls = <<>>
    \/ /\ p \in 1..Len(emitCalls)
       /\ emitCalls[p].state = "gathering"
       /\ k \in 1..Len(emitCalls[p].tasks)
       /\ emitCalls[p].tasks[k] = "running"

\* a call that ended: how it ended and how many of its handlers had not ended then
EndedCall(call, how) ==
    [parent |-> call.parent, ev |-> call.ev, tasks |-> <<>>, state |-> how,
     unfinished |-> Count(Awaited(call.tasks), "running")]

\* emit lines 66-88, called by p's handler k: the event is built and recorded and
\* the tasks are built; with no task the call returns at once
NestEmitStart(p, k, t) ==
    /\ Len(emitCalls) < MaxNest
    /\ CanEmit(p, k)
    /\ LET call == [parent |-> <<p, k>>, ev |-> [n |-> nEvents + 1, id |-> clock],
                    tasks |-> TasksFor(subscribers[t]), state |-> "gathering",
                    unfinished |-> 0]
           held == IF p = 0 \/ call.tasks = <<>> THEN emitCalls
                   ELSE [emitCalls EXCEPT ![p].tasks[k] = "awaiting"]
       IN /\ emitCalls' = Append(held, IF call.tasks = <<>>
                                       THEN EndedCall(call, "returned") ELSE call)
          /\ event_history' = Record(event_history, call.ev)
          /\ nEvents' = nEvents + 1
    /\ UNCHANGED <<subscribers, emits, lastEmit, clock>>
    /\ UNCHANGED <<agentVars, burstVars, subsVars, genVars, meetVars, moreVars>>

\* a running handler of call i ends: it returns, or it raises and gather keeps the
\* exception as its result (return_exceptions=True)
NestHandlerEnd(i, k) ==
    /\ i \in 1..Len(emitCalls)
    /\ k \in 1..Len(emitCalls[i].tasks)
    /\ emitCalls[i].tasks[k] = "running"
    /\ emitCalls' = [emitCalls EXCEPT ![i].tasks[k] = "ended"]
    /\ UNCHANGED busVars
    /\ UNCHANGED <<agentVars, burstVars, subsVars, genVars, meetVars, moreVars>>

\* emit lines 88-90: gather ends, emit returns to its caller, which runs on
NestEmitEnd(i) ==
    /\ i \in 1..Len(emitCalls)
    /\ emitCalls[i].state = "gathering"
    /\ GatherOutcome(Awaited(emitCalls[i].tasks)) # "waiting"
    /\ LET p == emitCalls[i].parent[1]
           k == emitCalls[i].parent[2]
           ended == [emitCalls EXCEPT
                        ![i] = EndedCall(@, GatherOutcome(Awaited(@.tasks)))]
       IN emitCalls' = IF p = 0 THEN ended ELSE [ended EXCEPT ![p].tasks[k] = "running"]
    /\ UNCHANGED busVars
    /\ UNCHANGED <<agentVars, burstVars, subsVars, genVars, meetVars, moreVars>>

\* the handlers are coroutine functions: only they can await an emit of their own
NextNest ==
    \/ \E t \in Topics : Subscribe(t, "coroutine")
    \/ \E t \in Topics : Unsubscribe(t, "coroutine")
    \/ Tick
    \/ \E p \in 0..MaxNest, k \in 0..MaxSubs, t \in Topics : NestEmitStart(p, k, t)
    \/ \E i \in 1..MaxNest, k \in 1..MaxSubs : NestHandlerEnd(i, k)
    \/ \E i \in 1..MaxNest : NestEmitEnd(i)

SpecNest == Init /\ [][NextNest]_vars

\* ------------------------------------- subscribe and unsubscribe by reference
\* subscribe lines 46-49: the callback is appended, registered already or not
SubscribeCall(t, cb) ==
    /\ Registrations < MaxRegs
    /\ subscribers' = [subscribers EXCEPT ![t] = Append(@, cb)]
    /\ lastOp' = [op |-> "subscribe", topic |-> t, callback |-> cb,
                  before |-> subscribers]
    /\ UNCHANGED <<event_history, emits, lastEmit, nEvents, clock>>
    /\ UNCHANGED <<agentVars, burstVars, nestVars, genVars, meetVars, moreVars>>

\* unsubscribe lines 54-55: list.remove(callback); it raises ValueError and removes
\* nothing when the callback is not in the list
UnsubscribeCall(t, cb) ==
    /\ IF \E k \in 1..Len(subscribers[t]) : subscribers[t][k] = cb
       THEN /\ subscribers' = [subscribers EXCEPT ![t] = RemoveFirst(@, cb)]
            /\ lastOp' = [op |-> "unsubscribe", topic |-> t, callback |-> cb,
                          before |-> subscribers]
       ELSE /\ UNCHANGED subscribers
            /\ lastOp' = [op |-> "unsubscribe_raised", topic |-> t, callback |-> cb,
                          before |-> subscribers]
    /\ UNCHANGED <<event_history, emits, lastEmit, nEvents, clock>>
    /\ UNCHANGED <<agentVars, burstVars, nestVars, genVars, meetVars, moreVars>>

\* emit lines 77-84: the number of tasks an emit builds for callback cb out of subs
Invocations(subs, cb) ==
    Cardinality({k \in 1..Len(TasksFor(subs)) : subs[k] = cb})

NextSubs ==
    \/ \E t \in Topics, cb \in Callbacks : SubscribeCall(t, cb)
    \/ \E t \in Topics, cb \in Callbacks : UnsubscribeCall(t, cb)

SpecSubs == Init /\ [][NextSubs]_vars

\* -------------------------------------------- generate_report, stage by stage
\* MemoryManager.add_memory: a fact is written to the store
AddMemory(f) ==
    /\ f \notin store
    /\ store' = store \cup {f}
    /\ UNCHANGED gr
    /\ UNCHANGED <<agentVars, busVars, burstVars, nestVars, subsVars, meetVars, moreVars>>

\* lines 45-58 and 90-134: the call starts its first stage, which recalls facts and
\* awaits its completion
GR_Start ==
    /\ gr.pc = "idle"
    /\ \E found \in Recalls(store) :
          gr' = [gr EXCEPT !.pc = "summary", !.ran = <<"summary">>,
                           !.recalled = found,
                           !.status["summary"] = StatusOnEntry]
    /\ UNCHANGED store
    /\ UNCHANGED <<agentVars, busVars, burstVars, nestVars, subsVars, meetVars, moreVars>>

\* lines 58-64: the completion of the running stage arrives with outcome o (a parsed
\* one with m key metrics or the items), the stage returns its result or its
\* fallback, and the next stage recalls facts and awaits its completion
GR_Stage(o, m, items) ==
    /\ gr.pc \in {"summary", "risk"}
    /\ IF ParseOutcome(o) = "raise"
       THEN gr' = [gr EXCEPT !.pc = "raised", !.outcome[gr.pc] = o,
                             !.recalled = <<>>]
       ELSE \E found \in Recalls(store) :
               gr' = [gr EXCEPT
                         !.pc = NextStage(gr.pc),
                         !.ran = Append(@, NextStage(gr.pc)),
                         !.recalled = found,
                         !.outcome[gr.pc] = o,
                         !.out[gr.pc] = IF ParseOutcome(o) = "result"
                                        THEN Result(gr.pc, m, items, gr.recalled)
                                        ELSE Fallback(gr.pc),
                         !.status[gr.pc] = StatusOnReturn(o),
                         !.status[NextStage(gr.pc)] = StatusOnEntry]
    /\ UNCHANGED store
    /\ UNCHANGED <<agentVars, busVars, burstVars, nestVars, subsVars, meetVars, moreVars>>

\* lines 64-80: the last stage returns, the report is built with status
\* pending_confirmation and stored, and report_generated is emitted
GR_Store(o, items) ==
    /\ gr.pc = "rec"
    /\ IF ParseOutcome(o) = "raise"
       THEN /\ gr' = [gr EXCEPT !.pc = "raised", !.outcome["rec"] = o,
                                !.recalled = <<>>]
            /\ UNCHANGED <<current_report, produced>>
       ELSE /\ gr' = [gr EXCEPT
                         !.pc = "stored",
                         !.recalled = <<>>,
                         !.outcome["rec"] = o,
                         !.out["rec"] = IF ParseOutcome(o) = "result"
                                        THEN Result("rec", 0, items, gr.recalled)
                                        ELSE Fallback("rec"),
                         !.status["rec"] = StatusOnReturn(o)]
            /\ produced' = Append(produced, report_version)
            /\ current_report' = NewReport(Len(produced) + 1, report_version)
    /\ UNCHANGED store
    /\ UNCHANGED <<is_processing_update, report_version, running, gpc>>
    /\ UNCHANGED handlerVars
    /\ UNCHANGED <<busVars, burstVars, nestVars, subsVars, meetVars, moreVars>>

\* lines 80-89: the emit returns and the report is returned
GR_Return ==
    /\ gr.pc = "stored"
    /\ gr' = [gr EXCEPT !.pc = "returned"]
    /\ UNCHANGED store
    /\ UNCHANGED <<agentVars, busVars, burstVars, nestVars, subsVars, meetVars, moreVars>>

NextGen ==
    \/ \E f \in Facts : AddMemory(f)
    \/ GR_Start
    \/ \E o \in Outcomes, m \in 0..MaxItems, items \in ItemLists : GR_Stage(o, m, items)
    \/ \E o \in Outcomes, items \in ItemLists : GR_Store(o, items)
    \/ GR_Return

SpecGen == Init /\ [][NextGen]_vars

\* ----------------------------------------------- the evidence backfill loop
\* the lists search_memories may return: distinct facts, at most limit=5 of them
RecallLists ==
    {m \in UNION {[1..n -> 1..MaxRecall] : n \in 0..SearchLimit} :
        \A i, j \in DOMAIN m : i # j => m[i] # m[j]}

\* the evidence_ids an entry of a completion may carry: up to two ids, 0 is no fact's
CitedLists == UNION {[1..n -> 0..MaxRecall] : n \in 0..BackfillCount}

\* the entries a parsed completion may hold: without the key, or with a list
EntryLists ==
    UNION {[1..n -> {Entry(FALSE, <<>>)} \cup {Entry(TRUE, cited) : cited \in CitedLists}] :
              n \in 0..MaxItems}

\* _node_risk_detection lines 336-341, _node_recommendations lines 472-477: the
\* loop over the parsed entries with the facts the stage recalled
BackfillLoop(memories, entries) ==
    /\ bf' = [done |-> TRUE, memories |-> memories, entries |-> entries,
              returned |-> BackfillEntries(entries, memories)]
    /\ UNCHANGED <<agentVars, busVars, burstVars, nestVars, subsVars, genVars, meetVars,
                   runVars, ctorVars, judgeVars>>

\* the loop runs once per stage run
NextFill ==
    /\ ~bf.done
    /\ \E memories \in RecallLists, entries \in EntryLists :
          BackfillLoop(memories, entries)

SpecFill == Init /\ [][NextFill]_vars

\* -------------------------------------------------- ScenarioOrchestrator.run
NodeOutputs == {"a", "b"}
SourceEntries == {"none", "cited"}

\* run up to the await of graph.ainvoke: build the graph once, build initial_state
Run_Start ==
    /\ orch.pc = "idle"
    /\ orch' = [orch EXCEPT !.pc = "invoking", !.graph = TRUE, !.state = InitialState]
    /\ UNCHANGED <<agentVars, busVars, burstVars, nestVars, subsVars, genVars, meetVars,
                   fillVars, ctorVars, judgeVars>>

\* inside graph.ainvoke a node's execute returns: its output is in node_outputs and
\* _add_source may have appended its entry to sources
Run_NodeDone(out, src) ==
    /\ orch.pc = "invoking"
    /\ Len(orch.state.node_outputs) < MaxNodes
    /\ orch' = [orch EXCEPT
                  !.state.node_outputs = Append(@, out),
                  !.state.sources = IF src = "cited"
                                    THEN Append(@, Len(orch.state.node_outputs) + 1)
                                    ELSE @]
    /\ UNCHANGED <<agentVars, busVars, burstVars, nestVars, subsVars, genVars, meetVars,
                   fillVars, ctorVars, judgeVars>>

\* inside graph.ainvoke a node's execute raises: ainvoke raises, final_state is never
\* bound, the except clause builds the dict returned (lines 161-165)
Run_NodeRaises ==
    /\ orch.pc = "invoking"
    /\ Len(orch.state.node_outputs) < MaxNodes
    /\ orch' = [orch EXCEPT !.pc = "done", !.raised = TRUE,
                            !.result = FailureResult("str(e)")]
    /\ UNCHANGED <<agentVars, busVars, burstVars, nestVars, subsVars, genVars, meetVars,
                   fillVars, ctorVars, judgeVars>>

\* graph.ainvoke returns the final state after the last node (lines 155-160)
Run_Return ==
    /\ orch.pc = "invoking"
    /\ Len(orch.state.node_outputs) = MaxNodes
    /\ orch' = [orch EXCEPT !.pc = "done", !.result = SuccessResult(orch.state)]
    /\ UNCHANGED <<agentVars, busVars, burstVars, nestVars, subsVars, genVars, meetVars,
                   fillVars, ctorVars, judgeVars>>

NextRun ==
    \/ Run_Start
    \/ \E out \in NodeOutputs, src \in SourceEntries : Run_NodeDone(out, src)
    \/ Run_NodeRaises
    \/ Run_Return

SpecRun == Init /\ [][NextRun]_vars

\* ----------------------------------------------------- process_meeting_notes
JudgeOutcomes == {"conflict", "no_conflict", "no_key", "error", "empty", "malformed"}
JudgeFailures == {"error", "empty", "malformed"}

\* the id the store gives to the fact written for extracted item i: the decisions
\* are items 1..MaxDecisions, the data insight is the item after them
NewId(i) == MaxFacts + i
InsightItem == MaxDecisions + 1

\* the items of the extraction: n strategic decisions and at most one data insight
Extracted(n, insight) == (1..n) \cup (IF insight THEN {InsightItem} ELSE {})

\* variant: the id of every item is kept, whatever add_memory returned
AttemptedIds(written, i) == [k \in 1..(InsightItem - i + 1) |-> NewId(i + k - 1)]

\* _write_to_memory: the ids of the items whose add_memory returned an id, the
\* decisions first and in their order
RECURSIVE WrittenIds(_, _)
WrittenIds(written, i) ==
    IF i > InsightItem THEN <<>>
    ELSE (IF i \in written THEN <<NewId(i)>> ELSE <<>>) \o WrittenIds(written, i + 1)

\* one add_memory call per extracted item, the decisions first
AddCalls(n, insight) == [k \in 1..Cardinality(Extracted(n, insight)) |-> "add"]

\* variant: the memories written by this call are not skipped
SameBatchNever(mem, idlist) == FALSE

\* if mem.id in new_memory_ids: continue
SameBatch(mem, idlist) == mem \in Range(idlist)

\* variant: json.loads is outside the try, a malformed content raises
CheckUncaught(o) ==
    IF o \in {"error", "empty"} THEN "false"
    ELSE IF o = "malformed" THEN "raise"
    ELSE IF o = "conflict" THEN "true"
    ELSE IF o = "no_conflict" THEN "false" ELSE "no_key"

\* _check_if_conflict, read by is_conflict["conflict"]: conflict false on an error,
\* an empty or an unparseable content, else what the parsed content says, and a
\* parsed content without the key gives a KeyError at line 298
CheckIfConflict(o) ==
    IF o \in JudgeFailures THEN "false"
    ELSE IF o = "conflict" THEN "true"
    ELSE IF o = "no_conflict" THEN "false" ELSE "no_key"

\* the ways the extraction's completion comes back: the stage outcomes, a JSON object
\* whose success is missing or not true, and a JSON value that is not an object
ExtractOutcomes == Outcomes \cup {"no_success", "not_object"}

\* _extract_structured_info read by structured.get("success") at line 37: a failure
\* dict on an error, an empty or an unparseable content; the parsed value as it is
\* otherwise, and a list or a scalar has no get
Extraction(o) ==
    IF o = "not_object" THEN "raise"
    ELSE IF o = "no_success" \/ ParseOutcome(o) # "result" THEN "failure"
    ELSE "structured"

Emitted(name, count) == Append(pmn.events, [name |-> name, count |-> count])

\* the log of the call's steps; judgments that follow one another are one entry
Logged(steps, step) ==
    IF steps # <<>> /\ steps[Len(steps)] = step THEN steps ELSE Append(steps, step)

\* lines 21-35: the call starts and awaits the extraction
PMN_Start ==
    /\ pmn.pc = "idle"
    /\ pmn' = [pmn EXCEPT !.pc = "extracting"]
    /\ UNCHANGED <<store, gr>>
    /\ UNCHANGED <<agentVars, busVars, burstVars, nestVars, subsVars, moreVars>>

\* lines 35-45 and 203-267: the extraction returns; on a failure the call returns
\* success False; else every item is written and the ids returned are kept
PMN_Extracted(o, n, insight, meta, written) ==
    /\ pmn.pc = "extracting"
    /\ IF Extraction(o) = "raise"
       THEN /\ pmn' = [pmn EXCEPT !.pc = "done", !.result = "raised", !.extraction = o]
            /\ UNCHANGED store
       ELSE IF Extraction(o) = "failure"
       THEN /\ pmn' = [pmn EXCEPT !.pc = "done", !.result = "failure", !.extraction = o]
            /\ UNCHANGED store
       ELSE /\ written \subseteq Extracted(n, insight)
            /\ pmn' = [pmn EXCEPT !.pc = "search", !.n = n, !.insight = insight,
                                  !.extraction = o,
                                  !.meta = meta, !.d = 1,
                                  !.memory_ids = WrittenIds(written, 1),
                                  !.written = written,
                                  !.steps = AddCalls(n, insight)]
            /\ store' = store \cup {NewId(i) : i \in written}
    /\ UNCHANGED gr
    /\ UNCHANGED <<agentVars, busVars, burstVars, nestVars, subsVars, moreVars>>

\* lines 275-284: the next decision and the facts related to it, at most three
PMN_Search ==
    /\ pmn.pc = "search"
    /\ IF pmn.d > pmn.n
       THEN pmn' = [pmn EXCEPT !.pc = "emit"]
       ELSE \E found \in SUBSET store :
               /\ Cardinality(found) <= ConflictSearchLimit
               /\ pmn' = [pmn EXCEPT !.pc = "pairs", !.related = found]
    /\ UNCHANGED <<store, gr>>
    /\ UNCHANGED <<agentVars, busVars, burstVars, nestVars, subsVars, moreVars>>

\* lines 287-296: the next related fact; one written by this call is skipped, for
\* any other the judgment is called (its arguments read structured["meta"]["date"])
PMN_Pair ==
    /\ pmn.pc = "pairs"
    /\ IF pmn.related = {}
       THEN pmn' = [pmn EXCEPT !.pc = "search", !.d = @ + 1]
       ELSE \E mem \in pmn.related :
               IF SameBatch(mem, pmn.memory_ids)
               THEN pmn' = [pmn EXCEPT !.related = @ \ {mem}, !.skipped = TRUE]
               ELSE IF ~pmn.meta
               THEN pmn' = [pmn EXCEPT !.pc = "done", !.result = "raised"]
               ELSE pmn' = [pmn EXCEPT !.pc = "judging", !.mem = mem,
                                       !.related = @ \ {mem},
                                       !.steps = Logged(@, "judge")]
    /\ UNCHANGED <<store, gr>>
    /\ UNCHANGED <<agentVars, busVars, burstVars, nestVars, subsVars, moreVars>>

\* lines 291-307 and 323-391: the judgment's completion arrives with outcome o; a
\* conflict is recorded with new_memory_id = new_memory_ids[0]
PMN_Judged(o) ==
    /\ pmn.pc = "judging"
    /\ LET j == CheckIfConflict(o)
           seen == [pmn EXCEPT
                       !.mem = 0,
                       !.last = [d |-> pmn.d, mem |-> pmn.mem, o |-> o],
                       !.judged = IF o \in JudgeFailures /\ @ # "mixed"
                                  THEN "failed_only" ELSE "mixed"]
       IN IF j \in {"no_key", "raise"} \/ (j = "true" /\ pmn.memory_ids = <<>>)
          THEN pmn' = [seen EXCEPT !.pc = "done", !.result = "raised"]
          ELSE IF j = "true"
          THEN pmn' = [seen EXCEPT
                          !.pc = "pairs",
                          !.conflicts = @ \cup {[d |-> pmn.d,
                                                 new |-> pmn.memory_ids[1],
                                                 old |-> pmn.mem]}]
          ELSE pmn' = [seen EXCEPT !.pc = "pairs"]
    /\ UNCHANGED <<store, gr>>
    /\ UNCHANGED <<agentVars, busVars, burstVars, nestVars, subsVars, moreVars>>

\* lines 309-321: with conflicts, one memory_conflict event that carries them all
PMN_EmitConflicts ==
    /\ pmn.pc = "emit"
    /\ pmn' = [pmn EXCEPT
                  !.pc = "record",
                  !.events = IF pmn.conflicts # {}
                             THEN Emitted("memory_conflict", Cardinality(pmn.conflicts))
                             ELSE @,
                  !.steps = IF pmn.conflicts # {}
                            THEN Append(@, "memory_conflict") ELSE @]
    /\ UNCHANGED <<store, gr>>
    /\ UNCHANGED <<agentVars, busVars, burstVars, nestVars, subsVars, moreVars>>

\* lines 48-61: the meeting_recorded event
PMN_Record ==
    /\ pmn.pc = "record"
    /\ pmn' = [pmn EXCEPT
                  !.pc = "update",
                  !.events = Emitted("meeting_recorded", Cardinality(pmn.conflicts)),
                  !.steps = Append(@, "meeting_recorded")]
    /\ UNCHANGED <<store, gr>>
    /\ UNCHANGED <<agentVars, busVars, burstVars, nestVars, subsVars, moreVars>>

\* lines 63-82: memory_updated when a decision or an insight was extracted, and the
\* call returns success True
PMN_Finish ==
    /\ pmn.pc = "update"
    /\ pmn' = [pmn EXCEPT
                  !.pc = "done", !.result = "success",
                  !.events = IF pmn.n > 0 \/ pmn.insight
                             THEN Emitted("memory_updated", 0) ELSE @,
                  !.steps = IF pmn.n > 0 \/ pmn.insight
                            THEN Append(@, "memory_updated") ELSE @,
                  !.update_ids = IF pmn.n > 0 \/ pmn.insight
                                 THEN pmn.memory_ids ELSE @]
    /\ UNCHANGED <<store, gr>>
    /\ UNCHANGED <<agentVars, busVars, burstVars, nestVars, subsVars, moreVars>>

NextMeet ==
    \/ \E f \in Facts : AddMemory(f)
    \/ PMN_Start
    \/ \E o \in ExtractOutcomes, n \in 0..MaxDecisions, insight \in BOOLEAN, meta \in BOOLEAN,
          written \in SUBSET (1..InsightItem) : PMN_Extracted(o, n, insight, meta, written)
    \/ PMN_Search
    \/ PMN_Pair
    \/ \E o \in JudgeOutcomes : PMN_Judged(o)
    \/ PMN_EmitConflicts
    \/ PMN_Record
    \/ PMN_Finish

SpecMeet == Init /\ [][NextMeet]_vars

\* ============================================================= the agent
Next ==
    \/ \E e \in Events, m \in SUBSET Facts : EmitMemoryUpdated(e, m)
    \/ \E e \in Events : OMU(e)
    \/ \E g \in Gens : GenStart(g)
    \/ \E g \in Gens : GenStage(g)
    \/ \E g \in Gens : GenFinish(g)
    \/ \E a \in ActionLists, sync \in BOOLEAN : ConfirmActions(a, sync)

Spec == Init /\ [][Next]_vars

\* every await of a handler returns or raises in the end, and the event loop runs
\* the handler tasks that gather created: while some handler can take a step, one does
FairSpec == Spec /\ WF_vars(\E e \in Events : OMU(e))

\* ------------------------------------------------- S8DecisionAgent(...) calls
\* variant: __init__ has no _initialized check
NeverInitialized(c) == FALSE

\* if self._initialized: return
AlreadyInitialized(c) == c.initialized

\* __new__ lines 22-27: the class keeps the first object it allocates
New(c) ==
    IF ~c.instance
    THEN [c EXCEPT !.instance = TRUE, !.initialized = FALSE, !.allocated = @ + 1]
    ELSE c

\* S8DecisionAgent("S8", ...) in an endpoint: __new__ then __init__, one block; the
\* first __init__ sets current_report and report_version and subscribes
\* on_memory_updated, a later one returns at its first line
Construct ==
    /\ running = 0
    /\ ctor.calls < MaxConstructions
    /\ IF AlreadyInitialized(New(ctor))
       THEN /\ ctor' = [New(ctor) EXCEPT !.calls = @ + 1]
            /\ UNCHANGED <<current_report, report_version, subscribers>>
       ELSE /\ ctor' = [New(ctor) EXCEPT !.calls = @ + 1, !.initialized = TRUE]
            /\ current_report' = NoReport
            /\ report_version' = V1
            /\ subscribers' = [subscribers EXCEPT
                                  !["memory_updated"] = Append(@, "on_memory_updated")]
    /\ UNCHANGED <<is_processing_update, produced, running, pc, ids, startRep, newRep,
                   cmpOld, calls, emitted, upd, last, gpc>>
    /\ UNCHANGED <<event_history, emits, lastEmit, nEvents, clock>>
    /\ UNCHANGED <<burstVars, nestVars, subsVars, genVars, meetVars, fillVars, runVars,
                   judgeVars>>

\* the endpoints construct the agent before they call it, and the handler runs once
\* the first construction has subscribed it
NextCtor ==
    \/ Construct
    \/ ctor.instance /\ Next

SpecCtor == Init /\ [][NextCtor]_vars

\* ================================================================ claims
PastGuard == {e \in Events : pc[e] \in InFlight \cup {"checked"}}
Revising == {e \in Events : pc[e] \in InFlight}
Confirmed == current_report.id # 0 /\ current_report.status = "confirmed"
ReportState == <<current_report, report_version, produced>>

\* C1: once the current report is confirmed, no step of an on_memory_updated
\* invocation replaces or modifies it (only a user-initiated generate_report may).
C1_ConfirmedNotRevised ==
    [][\A e \in Events :
          (pc'[e] # pc[e] /\ Confirmed) => current_report' = current_report]_vars

\* C2: the report a revision produces has a version strictly greater than the
\* version of every report produced before it.
C2_VersionsStrictlyIncrease ==
    \A e \in Events :
        newRep[e] # 0 =>
            \A r \in 1..(newRep[e] - 1) : produced[r] < produced[newRep[e]]

\* C3: at most one invocation is between setting and clearing the flag, it holds
\* the flag, and events delivered meanwhile start no second revision cycle.
C3_OneRevisionAtATime ==
    /\ Cardinality(Revising) <= 1
    /\ Revising # {} => is_processing_update

C3_Witness ==
    \E e, d \in Events :
        /\ pc[e] \in {"summary", "risk", "rec"}
        /\ pc[d] = "done"
        /\ last.how = "dropped"

\* C4: an invocation that set the flag has cleared it when it ends, whatever the
\* exit: no report, confirmed, no ids, unknown ids, no update, revised, raised.
C4_FlagReleasedOnExit ==
    [][\A e \in Events :
          (pc[e] \in InFlight \cup {"checked"} /\ pc'[e] = "done")
              => ~is_processing_update']_vars

C4_Witness ==
    /\ last.how = "raised"
    /\ "report_generated" \in last.emitted
    /\ ~is_processing_update
    /\ \A e \in Events : pc[e] \notin InFlight

\* C5: an invocation that finds no revision in flight and no current report, or a
\* confirmed one, ends at once: no completion call, no event, report and version
\* unchanged.
C5_NoOpWithoutRevisableReport ==
    [][\A e \in Events :
          /\ (pc[e] = "pending" /\ pc'[e] # "pending" /\ ~is_processing_update)
                => /\ pc'[e] = "checked"
                   /\ calls'[e] = 0 /\ emitted'[e] = {}
                   /\ ReportState' = ReportState
          /\ (pc[e] = "checked" /\ pc'[e] # "checked"
                /\ (current_report.id = 0 \/ Confirmed))
                => /\ pc'[e] = "done"
                   /\ last'.calls = 0 /\ last'.emitted = {}
                   /\ ReportState' = ReportState
                   /\ ~is_processing_update']_vars

C5_Witness ==
    /\ last.how = "confirmed"
    /\ Confirmed
    /\ \A e \in Events : pc[e] \in {"idle", "done"}

\* C6: an event delivered while the flag is set is dropped: the flag stays set for
\* the revision in flight, nothing is called, emitted or changed, the payload is
\* not kept, and an ended invocation never runs again.
C6_DroppedEvent ==
    [][\A e \in Events :
          /\ (pc[e] = "pending" /\ pc'[e] # "pending" /\ is_processing_update)
                => /\ pc'[e] = "done"
                   /\ last'.how = "dropped"
                   /\ is_processing_update'
                   /\ last'.calls = 0 /\ last'.emitted = {}
                   /\ ids'[e] = {}
                   /\ ReportState' = ReportState
          /\ (pc[e] = "done" => pc'[e] = "done")]_vars

C6_Witness ==
    /\ last.how = "dropped"
    /\ is_processing_update
    /\ Revising # {}

C8_UpdatePayload ==
    \A e \in Events :
        upd[e].present =>
            /\ upd[e].old_version = produced[startRep[e]]
            /\ upd[e].new_version = produced[newRep[e]]
            /\ upd[e].new_version = upd[e].old_version + 1
            /\ upd[e].reasons

\* C9: the comparison's old side is the report that was current before the
\* revision, never the regenerated report.
C9_ComparesOldWithNew ==
    \A e \in Events :
        pc[e] \in {"comparing", "publishing"} =>
            /\ cmpOld[e] = startRep[e]
            /\ cmpOld[e] # newRep[e]

\* C10: when handlers of an emit raise, emit still waits for every handler, does
\* not raise, returns the event id, and the event is in the history.
C10_EmitSurvivesHandlerFailure ==
    /\ lastEmit.state # "raised"
    /\ lastEmit.state = "returned" =>
          /\ lastEmit.returned + lastEmit.raised = lastEmit.expected
          /\ lastEmit.result = lastEmit.ev.id
          /\ lastEmit.recorded
    /\ \A i \in EmitCalls :
          emits[i].state = "gathering" =>
              \E k \in 1..Len(event_history) : event_history[k] = emits[i].ev

C10_Witness ==
    /\ lastEmit.state = "returned"
    /\ lastEmit.raised >= 1
    /\ lastEmit.returned >= 1

Min(a, b) == IF a < b THEN a ELSE b

\* C11: after any sequence of emits, overlapping or not, the history holds the most
\* recent min(n, 100) events in emission order, so never more than 100.
C11_HistoryIsLastHundred ==
    /\ Len(event_history) <= max_history
    /\ Len(event_history) = Min(nEvents, max_history)
    /\ \A k \in 1..Len(event_history) :
          event_history[k].n = nEvents - Len(event_history) + k

C11_Witness ==
    /\ nEvents = MaxBurst
    /\ nEvents > max_history
    /\ Len(event_history) = max_history
    /\ event_history[1].n = nEvents - max_history + 1
    /\ gathering = MaxOverlap

\* the emit calls made, directly or through further emits, by the handlers of call i
RECURSIVE Below(_, _)
Below(i, depth) ==
    IF depth = 0 THEN {}
    ELSE LET children == {j \in 1..Len(emitCalls) : emitCalls[j].parent[1] = i}
         IN children \cup UNION {Below(j, depth - 1) : j \in children}

\* C12: when emit has returned, every handler it dispatched has returned or raised,
\* and so has every emit call those handlers made and every handler below them.
C12_EmitWaitsForAllHandlers ==
    \A i \in 1..Len(emitCalls) :
        emitCalls[i].state # "gathering" =>
            /\ emitCalls[i].state = "returned"
            /\ emitCalls[i].unfinished = 0
            /\ \A j \in Below(i, MaxNest) :
                  emitCalls[j].state = "returned" /\ emitCalls[j].unfinished = 0

C12_Witness ==
    \E i, j \in 1..Len(emitCalls) :
        /\ emitCalls[i].parent = <<0, 0>>
        /\ emitCalls[i].state = "returned"
        /\ emitCalls[j].parent[1] = i
        /\ emitCalls[j].state = "returned"
        /\ lastEmit.state = "none"

\* C13: no two events built by the bus have the same id.
C13_EventIdsUnique ==
    \A i, j \in 1..Len(emitCalls) :
        i # j => emitCalls[i].ev.id # emitCalls[j].ev.id

Occurrences(s, x) == Cardinality({k \in 1..Len(s) : s[k] = x})
Others(s, x) == SelectSeq(s, LAMBDA y : y # x)

\* C14: unsubscribe(t, h) of a handler registered k >= 1 times for t leaves it
\* registered k-1 times, so that an emit on t invokes it k-1 times, and leaves the
\* other handlers of t, in their order, and every other topic as they were.
C14_UnsubscribeRemovesOne ==
    lastOp.op = "unsubscribe" =>
        LET t == lastOp.topic
            h == lastOp.callback
            k == Occurrences(lastOp.before[t], h)
        IN /\ k >= 1
           /\ Occurrences(subscribers[t], h) = k - 1
           /\ Invocations(subscribers[t], h) = k - 1
           /\ Others(subscribers[t], h) = Others(lastOp.before[t], h)
           /\ \A u \in Topics \ {t} : subscribers[u] = lastOp.before[u]

C14_Witness ==
    /\ lastOp.op = "unsubscribe"
    /\ Occurrences(lastOp.before[lastOp.topic], lastOp.callback) = 2
    /\ Len(lastOp.before[lastOp.topic]) = 3
    /\ Occurrences(subscribers[lastOp.topic], lastOp.callback) = 1

\* C15: whatever the completion outcomes of the stages, generate_report does not
\* raise, runs Summary, Risk and Recommendation once each in that order, stores the
\* report only after the three of them, complete and pending confirmation, and a
\* stage whose completion failed contributes its fallback.
C15_StagesDegradeNeverAbort ==
    /\ gr.pc # "raised"
    /\ gr.ran = SubSeq(StageOrder, 1, Len(gr.ran))
    /\ \A s \in Stages :
          /\ gr.out[s].set <=> gr.outcome[s] # "none"
          /\ gr.outcome[s] \in Outcomes \ {"valid"} => gr.out[s] = Fallback(s)
    /\ gr.out["summary"].text = "placeholder" =>
          gr.out["summary"].items = 0 /\ gr.out["summary"].evidence_ids = {}
    /\ current_report.id # 0 <=> gr.pc \in {"stored", "returned"}
    /\ gr.pc \in {"stored", "returned"} =>
          /\ gr.ran = StageOrder
          /\ \A s \in Stages : gr.out[s].set
          /\ current_report.status = "pending_confirmation"

C15_Witness ==
    /\ gr.pc = "returned"
    /\ gr.outcome = [s \in Stages |->
                        IF s = "summary" THEN "error"
                        ELSE IF s = "risk" THEN "malformed" ELSE "valid"]
    /\ gr.out["risk"] = Fallback("risk")
    /\ gr.out["rec"].items >= 1

\* C20: every id in the evidence_ids a stage puts into the report is the id of a
\* fact that stage recalled, and with an empty store every evidence_ids is empty.
C20_EvidenceWasRecalled ==
    [][\A s \in Stages :
          gr'.out[s] # gr.out[s] =>
              /\ gr'.out[s].evidence_ids \subseteq Range(gr.recalled)
              /\ store = {} => gr'.out[s].evidence_ids = {}]_vars

\* C16: once a report is confirmed, no later operation changes its status, its
\* tasks or its sync_log.
C16_ConfirmedIsFrozen ==
    [][(Confirmed /\ current_report'.id = current_report.id) =>
          /\ current_report'.status = current_report.status
          /\ current_report'.tasks = current_report.tasks
          /\ current_report'.sync_log = current_report.sync_log]_vars

EventsNamed(name) == {k \in 1..Len(pmn.events) : pmn.events[k].name = name}

\* C17: a judgment whose completion is an error, empty or unparseable records no
\* conflict for its pair, and a call whose judgments all failed that way does not
\* raise: it ends with success, no conflict, and its ingestion events.
C17_JudgmentFailsOpen ==
    /\ pmn.last.o \in JudgeFailures =>
          \A c \in pmn.conflicts : ~(c.d = pmn.last.d /\ c.old = pmn.last.mem)
    /\ pmn.judged = "failed_only" =>
          /\ pmn.result # "raised"
          /\ pmn.conflicts = {}
          /\ EventsNamed("memory_conflict") = {}
          /\ pmn.pc = "done" =>
                /\ pmn.result = "success"
                /\ EventsNamed("meeting_recorded") # {}
                /\ EventsNamed("memory_updated") # {}

C17_Witness ==
    /\ pmn.pc = "done"
    /\ pmn.result = "success"
    /\ pmn.judged = "failed_only"
    /\ pmn.last.o = "malformed"
    /\ EventsNamed("memory_updated") # {}

\* C18: no judgment is called for a decision and a fact written by the same call,
\* and no conflict record names such a fact as its old memory.
C18_SameBatchNotJudged ==
    /\ pmn.pc = "judging" => pmn.mem \notin Range(pmn.memory_ids)
    /\ pmn.last.mem \notin Range(pmn.memory_ids)
    /\ \A c \in pmn.conflicts : c.old \notin Range(pmn.memory_ids)

C18_Witness ==
    /\ pmn.skipped
    /\ pmn.conflicts # {}
    /\ pmn.pc = "done"
    /\ pmn.result = "success"

\* C19: a call that found n conflicts has emitted n conflict events, one for each.
C19_OneEventPerConflict ==
    pmn.pc \in {"record", "update", "done"} /\ pmn.result # "raised" =>
        /\ Cardinality(EventsNamed("memory_conflict")) = Cardinality(pmn.conflicts)
        /\ \A k \in EventsNamed("memory_conflict") : pmn.events[k].count = 1

\* C21: when the stage recalled at least one fact, every returned entry has
\* evidence_ids: an entry without any gets the ids of the first min(2, n) recalled
\* facts in recall order, an entry with ids keeps them.
C21_BackfillFromFirstTwo ==
    (bf.done /\ Len(bf.memories) >= 1) =>
        /\ Len(bf.returned) = Len(bf.entries)
        /\ \A k \in DOMAIN bf.returned :
              /\ bf.returned[k].has
              /\ bf.returned[k].evidence_ids # <<>>
              /\ IF ~bf.entries[k].has \/ bf.entries[k].evidence_ids = <<>>
                 THEN bf.returned[k].evidence_ids =
                          SubSeq(bf.memories, 1, Min(BackfillCount, Len(bf.memories)))
                 ELSE bf.returned[k].evidence_ids = bf.entries[k].evidence_ids

C21_Witness ==
    /\ bf.done
    /\ Len(bf.memories) = MaxRecall
    /\ Len(bf.entries) >= 1
    /\ ~bf.entries[1].has
    /\ bf.returned[1].evidence_ids = <<bf.memories[1], bf.memories[2]>>

\* C22: run never lets a stage's exception out; when a stage raised the caller gets
\* {success: false, error} together with the outputs and the sources of the stages
\* that had completed, and when none raised {success: true, outputs, sources}
C22_FailureKeepsPartialResult ==
    orch.pc = "done" =>
        /\ orch.result.keys # {}
        /\ orch.result.success = ~orch.raised
        /\ orch.raised => "error" \in orch.result.keys
        /\ {"outputs", "sources"} \subseteq orch.result.keys
        /\ orch.result.outputs = orch.state.node_outputs
        /\ orch.result.sources = orch.state.sources

\* C23: a revision that raises in regeneration, comparison or publication, after the
\* version was set, ends with the version still v2.0, without a report_updated event
\* and with the flag cleared; and no later step takes the version back.
C23_FailedRevisionKeepsVersion ==
    [][/\ \A e \in Events :
            (pc[e] \in {"summary", "risk", "rec", "comparing"} /\ pc'[e] = "done"
                /\ last'.how = "raised")
                => /\ report_version' = V2
                   /\ "report_updated" \notin last'.emitted
                   /\ ~is_processing_update'
       /\ (report_version = V2 => report_version' = V2)]_vars

C23_Witness ==
    /\ last.how = "raised"
    /\ last.calls >= 2
    /\ "report_updated" \notin last.emitted
    /\ report_version = V2
    /\ current_report.version = V1
    /\ ~is_processing_update
    /\ \A e \in Events : pc[e] = "done"

StepRank(step) ==
    IF step = "add" THEN 1
    ELSE IF step = "judge" THEN 2
    ELSE IF step = "memory_conflict" THEN 3
    ELSE IF step = "meeting_recorded" THEN 4 ELSE 5

StepsNamed(name) == {k \in DOMAIN pmn.steps : pmn.steps[k] = name}

\* C24: in a call that returns success the adds come first, then the judgments and
\* the conflict event, then meeting_recorded, then memory_updated; memory_updated is
\* emitted exactly when a decision or an insight was extracted, and its memory_ids
\* are the ids the store returned in this call, in write order.
C24_StepsInOrder ==
    /\ \A i, j \in DOMAIN pmn.steps :
          i < j => StepRank(pmn.steps[i]) <= StepRank(pmn.steps[j])
    /\ pmn.result = "success" =>
          /\ Cardinality(StepsNamed("add")) = Cardinality(Extracted(pmn.n, pmn.insight))
          /\ Cardinality(StepsNamed("meeting_recorded")) = 1
          /\ Cardinality(StepsNamed("memory_updated")) =
                 (IF pmn.n > 0 \/ pmn.insight THEN 1 ELSE 0)
          /\ StepsNamed("memory_updated") # {} =>
                 /\ Len(pmn.update_ids) = Cardinality(pmn.written)
                 /\ Range(pmn.update_ids) = {NewId(i) : i \in pmn.written}
                 /\ \A i, j \in DOMAIN pmn.update_ids :
                       i < j => pmn.update_ids[i] < pmn.update_ids[j]

C24_Witness ==
    /\ pmn.result = "success"
    /\ pmn.n = MaxDecisions /\ pmn.insight
    /\ Cardinality(pmn.written) = 2
    /\ Len(pmn.update_ids) = 2
    /\ StepsNamed("judge") # {}
    /\ StepsNamed("memory_conflict") # {}
    /\ pmn.steps[Len(pmn.steps)] = "memory_updated"

\* C25: a stage that is running has emitted node_status working, and a stage that
\* has returned, with its result or with its fallback, has emitted working and then
\* completed.
C25_WorkingThenCompleted ==
    \A s \in Stages :
        /\ gr.pc = s => gr.status[s] = <<"working">>
        /\ gr.out[s].set => gr.status[s] = <<"working", "completed">>

\* C26: however often the agent is constructed, one object is allocated, its
\* on_memory_updated is registered for memory_updated exactly once, and a
\* construction after the first changes neither current_report nor report_version.
C26_OneAgentOneSubscription ==
    [][/\ ctor'.allocated <= 1
       /\ ctor'.calls >= 1 =>
             Occurrences(subscribers'["memory_updated"], "on_memory_updated") = 1
       /\ (ctor'.calls > ctor.calls /\ ctor.calls >= 1) =>
             /\ current_report' = current_report
             /\ report_version' = report_version
             /\ subscribers' = subscribers]_vars

C26_Witness ==
    /\ ctor.calls = MaxConstructions
    /\ ctor.allocated = 1
    /\ current_report.id # 0
    /\ current_report.version = V2
    /\ report_version = V2

\* C27: when the relevance judgment's completion is an error, empty or not valid
\* JSON, the handler ends without a revision: version and report as they were, no
\* report_generated and no report_updated event, and the flag cleared.
C27_FailedJudgmentNoRevision ==
    [][\A e \in Events :
          (pc[e] = "judging" /\ pc'[e] # "judging" /\ judgment' \in JudgmentFailures)
              => /\ pc'[e] = "done"
                 /\ ReportState' = ReportState
                 /\ last'.emitted \cap {"report_generated", "report_updated"} = {}
                 /\ last'.calls = 1
                 /\ ~is_processing_update']_vars

C27_Witness ==
    /\ judgment = "malformed"
    /\ last.how = "judge_failed"
    /\ last.calls = 1
    /\ report_version = V1
    /\ current_report.id = 1
    /\ ~is_processing_update

\* C28: when the extraction's completion is an error, empty, unparseable, or a
\* result without a true success field, the call returns success False with the
\* error and has added nothing, judged nothing and emitted nothing.
C28_FailedExtractionNoEffect ==
    pmn.extraction \in ExtractOutcomes \ {"valid"} =>
        /\ pmn.pc = "done"
        /\ pmn.result = "failure"
        /\ pmn.memory_ids = <<>>
        /\ pmn.steps = <<>>
        /\ pmn.events = <<>>
        /\ store \subseteq Facts

\* C29: every conflict record names the fact written for the decision that was
\* judged as its new_memory_id and the historical fact as its old_memory_id, and
\* a conflicting judgment in a call that wrote no fact does not make the call fail.
C29_ConflictNamesJudgedFacts ==
    /\ \A c \in pmn.conflicts :
          /\ c.new = NewId(c.d)
          /\ c.old \in store \ Range(pmn.memory_ids)
    /\ ~(pmn.result = "raised" /\ pmn.last.o = "conflict" /\ pmn.memory_ids = <<>>)

\* C30: if every awaited call returns or raises in the end, the flag, once set, is
\* cleared in the end, and a handler that then finds it clear goes on to its checks
\* and is not dropped.
C30_FlagEventuallyCleared ==
    /\ is_processing_update ~> ~is_processing_update
    /\ [][\A e \in Events :
            (pc[e] = "pending" /\ pc'[e] # "pending" /\ ~is_processing_update)
                => (pc'[e] = "checked" /\ last' = last)]_vars

C30_Witness ==
    \E e, d \in Events :
        /\ pc[e] = "done"
        /\ last.how \in {"raised", "judge_failed", "revised"}
        /\ pc[d] = "judging"
        /\ is_processing_update
====
